---- MODULE Spec2Model ----
(***************************************************************************)
(* Model of src/app.py: a Streamlit script that loads an XGBoost model and *)
(* its encoding artifacts, renders a form, and on a button press encodes   *)
(* the form values into the model's feature layout and predicts a price.   *)
(*                                                                         *)
(* Streamlit executes the script from its first line on every interaction; *)
(* `st.button` is true only in the run the click started.  One run is the  *)
(* sequence LoadArtifacts -> RenderForm -> ButtonHandler / NoClick.  The   *)
(* store behind @st.cache_data outlives the runs.  The artifact files are  *)
(* state no operation of the program writes.                               *)
(***************************************************************************)
EXTENDS Integers, Sequences, FiniteSets, TLC

VARIABLES
    disk,                           \* the artifact files: name -> [status, content]
    pc,                             \* position of the script run
    bound,                          \* names bound in the script's namespace
    final_model,
    X_train_columns,
    manufacturer_target_encoding,
    paint_color_target_encoding,
    state_target_encoding,
    CylindersUnique,
    FuelUnique,
    TransmissionUnique,
    DriveUnique,
    SizeUnique,
    ANO_ACTUAL,
    odometer, year, manufacturer, paint_color, state,
    cylinders, fuel, transmission, drive, size,
    X_dmatrix,                      \* the encoder's result in the handler
    widgets,                        \* the session's widget state (raw selections)
    clicked,                        \* st.button is true in this run
    cache,                          \* the st.cache_data store of the encoder
    screen,                         \* the elements this run has displayed
    loads,                          \* how many times the artifacts were deserialized
    reruns,                         \* how many script runs an interaction started
    lastexc,                        \* the exception this run's try block raised
    cachehit,                       \* this run's encoder call was served from the cache
    failed                          \* an earlier submit ended in the except branch

artifacts == <<final_model, X_train_columns, manufacturer_target_encoding,
               paint_color_target_encoding, state_target_encoding,
               CylindersUnique, FuelUnique, TransmissionUnique, DriveUnique,
               SizeUnique, ANO_ACTUAL>>

inputs == <<odometer, year, manufacturer, paint_color, state,
            cylinders, fuel, transmission, drive, size>>

vars == <<disk, pc, bound, artifacts, inputs, X_dmatrix, widgets, clicked,
          cache, screen, loads, reruns, lastexc, cachehit, failed>>

----------------------------------------------------------------------------
(* Bounds of the model *)

MaxReruns == 3
MaxBadFiles == 1

----------------------------------------------------------------------------
(* Sequences and Python dicts (insertion ordered) *)

Range(s) == {s[i] : i \in DOMAIN s}

EmptyDict == [keys |-> <<>>, val |-> <<>>]

DictHas(d, k) == k \in Range(d.keys)

\* d[k] = v
DictSet(d, k, v) ==
    [keys |-> IF DictHas(d, k) THEN d.keys ELSE Append(d.keys, k),
     val  |-> [x \in Range(d.keys) \cup {k} |-> IF x = k THEN v ELSE d.val[x]]]

\* a dict built from <<key, value>> pairs, left to right
RECURSIVE DictOf(_)
DictOf(pairs) ==
    IF pairs = <<>> THEN EmptyDict
    ELSE LET n == Len(pairs)
         IN  DictSet(DictOf(SubSeq(pairs, 1, n - 1)), pairs[n][1], pairs[n][2])

\* d.update(pairs)
RECURSIVE DictUpdate(_, _)
DictUpdate(d, pairs) ==
    IF pairs = <<>> THEN d
    ELSE LET n == Len(pairs)
         IN  DictSet(DictUpdate(d, SubSeq(pairs, 1, n - 1)), pairs[n][1], pairs[n][2])

DictGetAlwaysDefault(d, k, default) == default

DictGetMissingIsMinusOne(d, k, default) == IF DictHas(d, k) THEN d.val[k] ELSE 0 - 1

\* d.get(k, default)
DictGet(d, k, default) == IF DictHas(d, k) THEN d.val[k] ELSE default

----------------------------------------------------------------------------
(* The encoder, codificar_datos_para_modelo *)

FallbackYear == 2024

OneHotFields == {"cylinders", "fuel", "transmission", "drive", "size"}

\* f'{feature_name}_{selected_value}'
ColName(feature_name, selected_value) == feature_name \o "_" \o selected_value

AgeClamped(y) == IF ANO_ACTUAL - y < 0 THEN 0 ELSE ANO_ACTUAL - y

\* age = ANO_ACTUAL - year
Age(y) == ANO_ACTUAL - y

\* {col: 0 for col in X_train_columns}
ZeroDict(columns) == DictOf([i \in DOMAIN columns |-> <<columns[i], 0>>])

activar_ohe_forgets(datos, feature_name, selected_value) == datos

\* the helper activar_ohe: sets the column only when the dict has it
activar_ohe(datos, feature_name, selected_value) ==
    LET col_name == ColName(feature_name, selected_value)
    IN  IF DictHas(datos, col_name) THEN DictSet(datos, col_name, 1) ELSE datos

activar_ohe_con_base(datos, feature_name, selected_value, base) ==
    activar_ohe(datos, feature_name, selected_value)

\* if value != base: activar_ohe(feature, value)
activar_ohe_salvo_base(datos, feature_name, selected_value, base) ==
    IF selected_value # base
    THEN activar_ohe(datos, feature_name, selected_value)
    ELSE datos

DataFrameAllColumns(datos, columns) ==
    [raised |-> "none",
     feature_names |-> datos.keys,
     data |-> [i \in DOMAIN datos.keys |-> datos.val[datos.keys[i]]]]

\* xgb.DMatrix(pd.DataFrame([datos])[columns]): the row projected on the
\* columns, in their order; pandas raises KeyError for a column the frame lacks
DataFrameSelect(datos, columns) ==
    IF \E i \in DOMAIN columns : ~DictHas(datos, columns[i])
    THEN [raised |-> "KeyError", feature_names |-> <<>>, data |-> <<>>]
    ELSE [raised |-> "none",
          feature_names |-> columns,
          data |-> [i \in DOMAIN columns |-> datos.val[columns[i]]]]

codificar_datos_para_modelo(odo, yr, manu, paint, st, cyl, fu, trans, drv, sz, columns) ==
    LET age == Age(yr)
        manufacturer_encoded == DictGet(manufacturer_target_encoding, manu, 0)
        paint_color_encoded == DictGet(paint_color_target_encoding, paint, 0)
        state_encoded == DictGet(state_target_encoding, st, 0)
        datos0 == ZeroDict(columns)
        datos1 == DictUpdate(datos0, << <<"odometer", odo>>,
                                        <<"age", age>>,
                                        <<"manufacturer_encoded", manufacturer_encoded>>,
                                        <<"paint_color_encoded", paint_color_encoded>>,
                                        <<"state_encoded", state_encoded>> >>)
        datos2 == activar_ohe(datos1, "cylinders", cyl)
        datos3 == activar_ohe(datos2, "fuel", fu)
        datos4 == activar_ohe_salvo_base(datos3, "transmission", trans, "automatic")
        datos5 == activar_ohe_salvo_base(datos4, "drive", drv, "awd")
        datos6 == activar_ohe(datos5, "size", sz)
    IN  DataFrameSelect(datos6, columns)

----------------------------------------------------------------------------
(* The artifact files *)

MODEL_PATH == "../models/hiper_xgboost_50iter_42.json"

AnoFile == "ANO_ACTUAL.joblib"

\* the required artifacts, in the order the script loads them
LoadOrder ==
    << MODEL_PATH,
       "X_train_columns.joblib",
       "manufacturer_target_encoding.joblib",
       "paint_color_target_encoding.joblib",
       "state_target_encoding.joblib",
       "CylindersUnique.joblib",
       "FuelUnique.joblib",
       "TransmissionUnique.joblib",
       "DriveUnique.joblib",
       "SizeUnique.joblib" >>

Files == Range(LoadOrder) \cup {AnoFile}

\* Two sets of artifacts a training run can have produced.  In the first the
\* one-hot columns drop the first level of fuel, transmission and drive; the
\* second has no 'age' and no 'paint_color_encoded' column, keeps the baseline
\* columns, and has a key and a category value that are not lower case.
Deployment1 ==
    (MODEL_PATH :> [trained |-> TRUE]) @@
    ("X_train_columns.joblib" :>
        << "odometer", "age", "manufacturer_encoded", "paint_color_encoded",
           "state_encoded", "cylinders_4 cylinders", "cylinders_6 cylinders",
           "fuel_gas", "transmission_manual", "drive_fwd",
           "size_full-size", "size_mid-size" >>) @@
    ("manufacturer_target_encoding.joblib" :>
        DictOf(<< <<"ford", 15000>>, <<"toyota", 18000>> >>)) @@
    ("paint_color_target_encoding.joblib" :>
        DictOf(<< <<"white", 14000>>, <<"black", 16000>> >>)) @@
    ("state_target_encoding.joblib" :>
        DictOf(<< <<"ca", 17000>>, <<"tx", 15500>> >>)) @@
    ("CylindersUnique.joblib" :> << "4 cylinders", "6 cylinders" >>) @@
    ("FuelUnique.joblib" :> << "diesel", "gas" >>) @@
    ("TransmissionUnique.joblib" :> << "automatic", "manual" >>) @@
    ("DriveUnique.joblib" :> << "awd", "fwd" >>) @@
    ("SizeUnique.joblib" :> << "full-size", "mid-size" >>) @@
    (AnoFile :> 2025)

Deployment2 ==
    (MODEL_PATH :> [trained |-> TRUE]) @@
    ("X_train_columns.joblib" :>
        << "size_mid-size", "drive_awd", "drive_fwd", "transmission_automatic",
           "transmission_manual", "fuel_gas", "state_encoded",
           "manufacturer_encoded", "odometer" >>) @@
    ("manufacturer_target_encoding.joblib" :>
        DictOf(<< <<"Ford", 15000>>, <<"toyota", 0>> >>)) @@
    ("paint_color_target_encoding.joblib" :>
        DictOf(<< <<"black", 16000>>, <<"white", 14000>> >>)) @@
    ("state_target_encoding.joblib" :>
        DictOf(<< <<"tx", 15500>>, <<"ca", 17000>> >>)) @@
    ("CylindersUnique.joblib" :> << "8 cylinders", "other" >>) @@
    ("FuelUnique.joblib" :> << "gas", "other" >>) @@
    ("TransmissionUnique.joblib" :> << "manual", "automatic" >>) @@
    ("DriveUnique.joblib" :> << "RWD", "awd" >>) @@
    ("SizeUnique.joblib" :> << "compact", "mid-size" >>) @@
    (AnoFile :> 2023)

Deployments == {Deployment1, Deployment2}

FileStatus == {"ok", "missing", "corrupt"}

\* the files of a deployment, of which those in `bad` are missing or corrupt
DiskOf(d, status) == [f \in Files |-> [status |-> status[f], content |-> d[f]]]

Disks ==
    { DiskOf(d, status) :
        d \in Deployments,
        status \in { st \in [Files -> FileStatus] :
                       Cardinality({f \in Files : st[f] # "ok"}) <= MaxBadFiles } }

----------------------------------------------------------------------------
(* Loading, lines 15-62 *)

\* index in LoadOrder of the first required artifact whose load raises, or 0
FirstBad(d) ==
    IF \A i \in DOMAIN LoadOrder : d[LoadOrder[i]].status = "ok"
    THEN 0
    ELSE CHOOSE i \in DOMAIN LoadOrder :
            /\ d[LoadOrder[i]].status # "ok"
            /\ \A j \in 1..(i - 1) : d[LoadOrder[j]].status = "ok"

\* what the failing load raises: Booster.load_model raises XGBoostError,
\* joblib.load raises FileNotFoundError for a missing file and an unpickling
\* error for a corrupt one
RaisedBy(d, i) ==
    IF i = 0 THEN "none"
    ELSE IF LoadOrder[i] = MODEL_PATH THEN "XGBoostError"
    ELSE IF d[LoadOrder[i]].status = "missing" THEN "FileNotFoundError"
    ELSE "UnpicklingError"

\* the except clauses of lines 47 and 60
HandledAtLoad == {"FileNotFoundError", "XGBoostError"}

\* the value a name holds after the load: the file's content when the load
\* reached it and it succeeded, else `unbound`
LoadedValue(d, i, unbound) ==
    LET k == FirstBad(d)
    IN  IF k = 0 \/ i < k THEN d[LoadOrder[i]].content ELSE unbound

\* lines 36-40: the reference year, 2024 when its file cannot be loaded
LoadAnoActual(d) ==
    IF d[AnoFile].status = "ok" THEN d[AnoFile].content ELSE FallbackYear

GlobalNames ==
    << "final_model", "X_train_columns", "manufacturer_target_encoding",
       "paint_color_target_encoding", "state_target_encoding", "CylindersUnique",
       "FuelUnique", "TransmissionUnique", "DriveUnique", "SizeUnique" >>

\* the names bound when the try block ends: final_model is bound to an empty
\* Booster before load_model runs
BoundAfterLoad(d) ==
    LET k == FirstBad(d)
    IN  IF k = 0
        THEN Range(GlobalNames) \cup
             {"ANO_ACTUAL", "ManufacturerUnique", "PaintColorUnique", "StateUnique"}
        ELSE {GlobalNames[i] : i \in 1..k} \ (IF k > 1 THEN {GlobalNames[k]} ELSE {})

\* the module-level assignments of lines 17-40
AssignArtifacts(d) ==
    /\ final_model' = LoadedValue(d, 1, [trained |-> FALSE])
    /\ X_train_columns' = LoadedValue(d, 2, <<>>)
    /\ manufacturer_target_encoding' = LoadedValue(d, 3, EmptyDict)
    /\ paint_color_target_encoding' = LoadedValue(d, 4, EmptyDict)
    /\ state_target_encoding' = LoadedValue(d, 5, EmptyDict)
    /\ CylindersUnique' = LoadedValue(d, 6, <<>>)
    /\ FuelUnique' = LoadedValue(d, 7, <<>>)
    /\ TransmissionUnique' = LoadedValue(d, 8, <<>>)
    /\ DriveUnique' = LoadedValue(d, 9, <<>>)
    /\ SizeUnique' = LoadedValue(d, 10, <<>>)
    /\ ANO_ACTUAL' = IF FirstBad(d) = 0 THEN LoadAnoActual(d) ELSE 0

\* lines 43-45
ManufacturerUnique == manufacturer_target_encoding.keys
PaintColorUnique == paint_color_target_encoding.keys
StateUnique == state_target_encoding.keys

Element(kind, falta) == [kind |-> kind, falta |-> falta]

\* One execution of lines 15-62.  A handled exception shows st.error naming
\* what is missing and st.stop()s the run; any other exception leaves the
\* script through no handler of the program.
LoadArtifacts ==
    /\ pc = "load"
    /\ LET k == FirstBad(disk)
           exc == RaisedBy(disk, k)
       IN  /\ AssignArtifacts(disk)
           /\ bound' = BoundAfterLoad(disk)
           /\ loads' = loads + 1
           /\ lastexc' = "none"
           /\ cachehit' = FALSE
           /\ IF k = 0
              THEN pc' = "form" /\ screen' = <<>>
              ELSE IF exc \in HandledAtLoad
              THEN /\ pc' = "stopped"
                   /\ screen' = << Element("error", LoadOrder[k]) >>
              ELSE /\ pc' = "crashed"
                   /\ screen' = << Element("exception", exc) >>
    /\ UNCHANGED <<disk, inputs, X_dmatrix, widgets, clicked, cache, reruns, failed>>

----------------------------------------------------------------------------
(* The form, lines 142-235 *)

\* str.lower() on the strings the artifacts and the arguments range over
Lower(s) ==
    CASE s = "Ford" -> "ford"
      [] s = "RWD" -> "rwd"
      [] OTHER -> s

\* the positions the model lets the two sliders take, within their ranges
\* [0, 300000] step 500 and [1980, ANO_ACTUAL]
OdometerOptions == {0, 50000}
YearOptions == {1980, ANO_ACTUAL - 5, ANO_ACTUAL}

\* default = preferred if preferred in options else options[0]
DefaultOption(preferred, options) ==
    IF preferred \in Range(options) THEN preferred ELSE options[1]

WidgetNames ==
    {"odometer", "year", "manufacturer", "state", "paint_color",
     "cylinders", "fuel", "transmission", "drive", "size"}

\* the values each widget offers
Options(w) ==
    CASE w = "odometer" -> OdometerOptions
      [] w = "year" -> YearOptions
      [] w = "manufacturer" -> Range(ManufacturerUnique)
      [] w = "state" -> Range(StateUnique)
      [] w = "paint_color" -> Range(PaintColorUnique)
      [] w = "cylinders" -> Range(CylindersUnique)
      [] w = "fuel" -> Range(FuelUnique)
      [] w = "transmission" -> Range(TransmissionUnique)
      [] w = "drive" -> Range(DriveUnique)
      [] w = "size" -> Range(SizeUnique)

\* the value each widget shows when first rendered (value= / index=)
Defaults ==
    [ rendered     |-> TRUE,
      odometer     |-> 50000,
      year         |-> ANO_ACTUAL - 5,
      manufacturer |-> ManufacturerUnique[1],
      state        |-> StateUnique[1],
      paint_color  |-> PaintColorUnique[1],
      cylinders    |-> DefaultOption("6 cylinders", CylindersUnique),
      fuel         |-> DefaultOption("gas", FuelUnique),
      transmission |-> DefaultOption("automatic", TransmissionUnique),
      drive        |-> DefaultOption("fwd", DriveUnique),
      size         |-> DefaultOption("mid-size", SizeUnique) ]

Unrendered ==
    [ rendered |-> FALSE, odometer |-> 0, year |-> 0, manufacturer |-> "",
      state |-> "", paint_color |-> "", cylinders |-> "", fuel |-> "",
      transmission |-> "", drive |-> "", size |-> "" ]

\* Lines 142-235: every widget returns the session's selection, or its
\* default the first time; the string ones are lower-cased.
RenderForm ==
    /\ pc = "form"
    /\ LET w == IF widgets.rendered THEN widgets ELSE Defaults
       IN  /\ widgets' = w
           /\ odometer' = w.odometer
           /\ year' = w.year
           /\ manufacturer' = Lower(w.manufacturer)
           /\ state' = Lower(w.state)
           /\ paint_color' = Lower(w.paint_color)
           /\ cylinders' = Lower(w.cylinders)
           /\ fuel' = Lower(w.fuel)
           /\ transmission' = Lower(w.transmission)
           /\ drive' = Lower(w.drive)
           /\ size' = Lower(w.size)
    /\ bound' = bound \cup WidgetNames
    /\ screen' = Append(screen, Element("form", ""))
    /\ pc' = "button"
    /\ UNCHANGED <<disk, artifacts, X_dmatrix, clicked, cache, loads, reruns,
                   lastexc, cachehit, failed>>

----------------------------------------------------------------------------
(* The prediction button, lines 240-269 *)

CacheKeyWithoutYear(odo, yr, manu, paint, st, cyl, fu, trans, drv, sz, columns) ==
    <<odo, 0, manu, paint, st, cyl, fu, trans, drv, sz, columns>>

\* @st.cache_data keys an entry by the values of all the arguments
CacheKey(odo, yr, manu, paint, st, cyl, fu, trans, drv, sz, columns) ==
    <<odo, yr, manu, paint, st, cyl, fu, trans, drv, sz, columns>>

CacheHit(key) == \E e \in cache : e.key = key

CacheValue(key) == (CHOOSE e \in cache : e.key = key).value

\* what final_model.predict can raise
PredictRaises == {"XGBoostError", "ValueError"}

CatchesOnlyValueError(exc) == exc = "ValueError"

\* line 267: except Exception
Catches(exc) == exc \in PredictRaises \cup {"KeyError"}

\* the script did not press the button: the run ends after the form
NoClick ==
    /\ pc = "button"
    /\ ~clicked
    /\ pc' = "idle"
    /\ UNCHANGED <<disk, bound, artifacts, inputs, X_dmatrix, widgets, clicked,
                   cache, screen, loads, reruns, lastexc, cachehit, failed>>

\* Lines 240-269 in the run a click started: the memoized encoder, then
\* predict, which returns or raises; the except branch shows the error.
ButtonHandler ==
    /\ pc = "button"
    /\ clicked
    /\ LET key == CacheKey(odometer, year, manufacturer, paint_color, state,
                           cylinders, fuel, transmission, drive, size,
                           X_train_columns)
           hit == CacheHit(key)
           ret == IF hit
                  THEN CacheValue(key)
                  ELSE codificar_datos_para_modelo(
                           odometer, year, manufacturer, paint_color, state,
                           cylinders, fuel, transmission, drive, size,
                           X_train_columns)
       IN  \E predicted \in {"none"} \cup PredictRaises :
             LET exc == IF ret.raised # "none" THEN ret.raised ELSE predicted
             IN  /\ IF ret.raised = "none"
                    THEN /\ X_dmatrix' = ret
                         /\ bound' = bound \cup {"X_dmatrix"}
                         /\ cache' = IF hit THEN cache
                                     ELSE cache \cup {[key |-> key, value |-> ret]}
                    ELSE UNCHANGED <<X_dmatrix, bound, cache>>
                 /\ lastexc' = exc
                 /\ cachehit' = hit
                 /\ IF exc = "none"
                    THEN /\ screen' = screen \o << Element("success", ""),
                                                   Element("precio_estimado", "") >>
                         /\ pc' = "idle"
                         /\ failed' = failed
                    ELSE IF Catches(exc)
                    THEN /\ screen' = screen \o << Element("error_predecir", exc),
                                                   Element("info", "") >>
                         /\ pc' = "idle"
                         /\ failed' = TRUE
                    ELSE /\ screen' = Append(screen, Element("exception", exc))
                         /\ pc' = "crashed"
                         /\ failed' = failed
    /\ UNCHANGED <<disk, artifacts, inputs, widgets, clicked, loads, reruns>>

----------------------------------------------------------------------------
(* Interactions: each starts a run of the script *)

\* the user moves one widget of the rendered form
ChangeWidget ==
    /\ pc = "idle"
    /\ reruns < MaxReruns
    /\ \E w \in WidgetNames : \E v \in Options(w) :
         /\ v # widgets[w]
         /\ widgets' = [widgets EXCEPT ![w] = v]
    /\ clicked' = FALSE
    /\ pc' = "load"
    /\ reruns' = reruns + 1
    /\ UNCHANGED <<disk, bound, artifacts, inputs, X_dmatrix, cache, screen,
                   loads, lastexc, cachehit, failed>>

\* the user presses "Calcular Precio Estimado"
Click ==
    /\ pc = "idle"
    /\ reruns < MaxReruns
    /\ clicked' = TRUE
    /\ pc' = "load"
    /\ reruns' = reruns + 1
    /\ UNCHANGED <<disk, bound, artifacts, inputs, X_dmatrix, widgets, cache,
                   screen, loads, lastexc, cachehit, failed>>

\* the page is opened again: a new session, the same process and cache
Reload ==
    /\ pc \in {"idle", "stopped", "crashed"}
    /\ reruns < MaxReruns
    /\ widgets' = Unrendered
    /\ clicked' = FALSE
    /\ pc' = "load"
    /\ reruns' = reruns + 1
    /\ UNCHANGED <<disk, bound, artifacts, inputs, X_dmatrix, cache, screen,
                   loads, lastexc, cachehit, failed>>

----------------------------------------------------------------------------
(* The application *)

NoInputs ==
    /\ odometer = 0 /\ year = 0 /\ manufacturer = "" /\ paint_color = ""
    /\ state = "" /\ cylinders = "" /\ fuel = "" /\ transmission = ""
    /\ drive = "" /\ size = ""

NoResult == [raised |-> "none", feature_names |-> <<>>, data |-> <<>>]

Init ==
    /\ disk \in Disks
    /\ pc = "load"
    /\ bound = {}
    /\ final_model = [trained |-> FALSE]
    /\ X_train_columns = <<>>
    /\ manufacturer_target_encoding = EmptyDict
    /\ paint_color_target_encoding = EmptyDict
    /\ state_target_encoding = EmptyDict
    /\ CylindersUnique = <<>>
    /\ FuelUnique = <<>>
    /\ TransmissionUnique = <<>>
    /\ DriveUnique = <<>>
    /\ SizeUnique = <<>>
    /\ ANO_ACTUAL = 0
    /\ NoInputs
    /\ X_dmatrix = NoResult
    /\ widgets = Unrendered
    /\ clicked = FALSE
    /\ cache = {}
    /\ screen = <<>>
    /\ loads = 0
    /\ reruns = 0
    /\ lastexc = "none"
    /\ cachehit = FALSE
    /\ failed = FALSE

Next ==
    \/ LoadArtifacts
    \/ RenderForm
    \/ NoClick
    \/ ButtonHandler
    \/ ChangeWidget
    \/ Click
    \/ Reload

Spec == Init /\ [][Next]_vars

----------------------------------------------------------------------------
(* The encoder as a function: any arguments, on loaded artifacts *)

OdometerArgs == {0, 1, 50000}
YearArgs == {1980, 2024, 2026}
ManufacturerArgs == {"ford", "Ford", "zzz_unknown"}
PaintColorArgs == {"white", "zzz_unknown"}
StateArgs == {"ca", "zz"}
CylindersArgs == {"6 cylinders", "8 cylinders", "automatic"}
FuelArgs == {"gas", "diesel"}
TransmissionArgs == {"automatic", "manual", "other"}
DriveArgs == {"awd", "fwd", "rwd"}
SizeArgs == {"mid-size", "compact"}

\* the disks from which every required artifact loads
LoadableDisks == {d \in Disks : FirstBad(d) = 0}

InitEnc ==
    /\ disk \in LoadableDisks
    /\ pc = "call"
    /\ bound = BoundAfterLoad(disk) \cup WidgetNames
    /\ final_model = LoadedValue(disk, 1, [trained |-> FALSE])
    /\ X_train_columns = LoadedValue(disk, 2, <<>>)
    /\ manufacturer_target_encoding = LoadedValue(disk, 3, EmptyDict)
    /\ paint_color_target_encoding = LoadedValue(disk, 4, EmptyDict)
    /\ state_target_encoding = LoadedValue(disk, 5, EmptyDict)
    /\ CylindersUnique = LoadedValue(disk, 6, <<>>)
    /\ FuelUnique = LoadedValue(disk, 7, <<>>)
    /\ TransmissionUnique = LoadedValue(disk, 8, <<>>)
    /\ DriveUnique = LoadedValue(disk, 9, <<>>)
    /\ SizeUnique = LoadedValue(disk, 10, <<>>)
    /\ ANO_ACTUAL = LoadAnoActual(disk)
    /\ odometer \in OdometerArgs
    /\ year \in YearArgs
    /\ manufacturer \in ManufacturerArgs
    /\ paint_color \in PaintColorArgs
    /\ state \in StateArgs
    /\ cylinders \in CylindersArgs
    /\ fuel \in FuelArgs
    /\ transmission \in TransmissionArgs
    /\ drive \in DriveArgs
    /\ size \in SizeArgs
    /\ X_dmatrix = NoResult
    /\ widgets = Unrendered
    /\ clicked = FALSE
    /\ cache = {}
    /\ screen = <<>>
    /\ loads = 1
    /\ reruns = 0
    /\ lastexc = "none"
    /\ cachehit = FALSE
    /\ failed = FALSE

\* one call of the undecorated function
EncoderCall ==
    /\ pc = "call"
    /\ X_dmatrix' = codificar_datos_para_modelo(
                        odometer, year, manufacturer, paint_color, state,
                        cylinders, fuel, transmission, drive, size,
                        X_train_columns)
    /\ pc' = "return"
    /\ UNCHANGED <<disk, bound, artifacts, inputs, widgets, clicked, cache,
                   screen, loads, reruns, lastexc, cachehit, failed>>

NextEnc == EncoderCall

SpecEnc == InitEnc /\ [][NextEnc]_vars

----------------------------------------------------------------------------
(* Vocabulary of the properties *)

Returned == pc = "return"

\* the positions of the returned vector whose column has this name
ColumnsNamed(name) ==
    {i \in DOMAIN X_dmatrix.feature_names : X_dmatrix.feature_names[i] = name}

ListFiles ==
    {"CylindersUnique.joblib", "FuelUnique.joblib", "TransmissionUnique.joblib",
     "DriveUnique.joblib", "SizeUnique.joblib"}

\* every category value of the model
AllValues ==
    CylindersArgs \cup FuelArgs \cup TransmissionArgs \cup DriveArgs \cup SizeArgs
    \cup UNION {Range(d[f]) : d \in Deployments, f \in ListFiles}

\* the positions of the one-hot columns of a field
FieldColumns(f) ==
    {i \in DOMAIN X_dmatrix.feature_names :
        \E v \in AllValues : X_dmatrix.feature_names[i] = ColName(f, v)}

Arg(f) ==
    CASE f = "cylinders" -> cylinders
      [] f = "fuel" -> fuel
      [] f = "transmission" -> transmission
      [] f = "drive" -> drive
      [] f = "size" -> size

CategoryList(f) ==
    CASE f = "cylinders" -> CylindersUnique
      [] f = "fuel" -> FuelUnique
      [] f = "transmission" -> TransmissionUnique
      [] f = "drive" -> DriveUnique
      [] f = "size" -> SizeUnique

IsBaseline(f, v) ==
    \/ f = "transmission" /\ v = "automatic"
    \/ f = "drive" /\ v = "awd"

\* a member of the field's category list that is not a baseline
ValidNonBaseline(f) ==
    /\ Arg(f) \in Range(CategoryList(f))
    /\ ~IsBaseline(f, Arg(f))

Stored(file) == disk[file].content

ReferenceYear ==
    IF disk[AnoFile].status = "ok" THEN Stored(AnoFile) ELSE FallbackYear

Unmemoized ==
    codificar_datos_para_modelo(odometer, year, manufacturer, paint_color, state,
                                cylinders, fuel, transmission, drive, size,
                                X_train_columns)

UnmemoizedOf(k) ==
    codificar_datos_para_modelo(k[1], k[2], k[3], k[4], k[5], k[6], k[7], k[8],
                                k[9], k[10], k[11])

\* the values the globals hold after a load of the disk that met no failure
HoldsLoaded ==
    /\ final_model = Stored(MODEL_PATH)
    /\ X_train_columns = Stored("X_train_columns.joblib")
    /\ manufacturer_target_encoding = Stored("manufacturer_target_encoding.joblib")
    /\ paint_color_target_encoding = Stored("paint_color_target_encoding.joblib")
    /\ state_target_encoding = Stored("state_target_encoding.joblib")
    /\ CylindersUnique = Stored("CylindersUnique.joblib")
    /\ FuelUnique = Stored("FuelUnique.joblib")
    /\ TransmissionUnique = Stored("TransmissionUnique.joblib")
    /\ DriveUnique = Stored("DriveUnique.joblib")
    /\ SizeUnique = Stored("SizeUnique.joblib")
    /\ ANO_ACTUAL = ReferenceYear

Shows(kind) == \E i \in DOMAIN screen : screen[i].kind = kind

----------------------------------------------------------------------------
(* Properties of the encoder, checked under SpecEnc *)

\* C1: whatever the arguments and the schema, the returned vector has exactly
\* the columns of X_train_columns, in that order and of that length.
C1_ColumnsAreTheSchema ==
    Returned =>
        /\ X_dmatrix.feature_names = X_train_columns
        /\ DOMAIN X_dmatrix.data = DOMAIN X_train_columns

C1_Witness ==
    /\ Returned
    /\ "age" \notin Range(X_train_columns)
    /\ "paint_color_encoded" \notin Range(X_train_columns)
    /\ Len(X_dmatrix.feature_names) > 0

\* C2: when manufacturer, paint_color and state are keys of their tables, the
\* three *_encoded columns hold the tables' stored values for those keys.
C2_KnownKeysGetStoredValue ==
    Returned =>
        /\ DictHas(Stored("manufacturer_target_encoding.joblib"), manufacturer) =>
             \A i \in ColumnsNamed("manufacturer_encoded") :
                X_dmatrix.data[i] =
                    Stored("manufacturer_target_encoding.joblib").val[manufacturer]
        /\ DictHas(Stored("paint_color_target_encoding.joblib"), paint_color) =>
             \A i \in ColumnsNamed("paint_color_encoded") :
                X_dmatrix.data[i] =
                    Stored("paint_color_target_encoding.joblib").val[paint_color]
        /\ DictHas(Stored("state_target_encoding.joblib"), state) =>
             \A i \in ColumnsNamed("state_encoded") :
                X_dmatrix.data[i] = Stored("state_target_encoding.joblib").val[state]

C2_Witness ==
    /\ Returned
    /\ manufacturer = "ford" /\ paint_color = "white" /\ state = "ca"
    /\ \E i \in ColumnsNamed("manufacturer_encoded") : X_dmatrix.data[i] = 15000
    /\ \E i \in ColumnsNamed("paint_color_encoded") : X_dmatrix.data[i] = 14000
    /\ \E i \in ColumnsNamed("state_encoded") : X_dmatrix.data[i] = 17000

\* C3: the encoder raises for no argument; a manufacturer, paint color or state
\* that is no key of its table gives 0 in its encoded column, and a one-hot
\* value whose column the schema lacks leaves every column of its field 0.
C3_UnknownValuesDegradeToZero ==
    Returned =>
        /\ X_dmatrix.raised = "none"
        /\ ~DictHas(Stored("manufacturer_target_encoding.joblib"), manufacturer) =>
             \A i \in ColumnsNamed("manufacturer_encoded") : X_dmatrix.data[i] = 0
        /\ ~DictHas(Stored("paint_color_target_encoding.joblib"), paint_color) =>
             \A i \in ColumnsNamed("paint_color_encoded") : X_dmatrix.data[i] = 0
        /\ ~DictHas(Stored("state_target_encoding.joblib"), state) =>
             \A i \in ColumnsNamed("state_encoded") : X_dmatrix.data[i] = 0
        /\ \A f \in OneHotFields :
             ColName(f, Arg(f)) \notin Range(X_train_columns) =>
                \A i \in FieldColumns(f) : X_dmatrix.data[i] = 0

C3_Witness ==
    /\ Returned
    /\ manufacturer = "zzz_unknown" /\ paint_color = "zzz_unknown" /\ state = "zz"
    /\ ColumnsNamed("manufacturer_encoded") # {}
    /\ ColumnsNamed("paint_color_encoded") # {}
    /\ ColumnsNamed("state_encoded") # {}
    /\ cylinders = "automatic"
    /\ FieldColumns("cylinders") # {}

\* C4 as stated: a valid value v of a one-hot field f, other than the two
\* baselines, sets exactly one column f_v to 1 and leaves f's other columns 0.
C4_ExactlyOneColumnSet ==
    Returned =>
        \A f \in OneHotFields :
            ValidNonBaseline(f) =>
                /\ Cardinality({i \in ColumnsNamed(ColName(f, Arg(f))) :
                                    X_dmatrix.data[i] = 1}) = 1
                /\ \A i \in FieldColumns(f) \ ColumnsNamed(ColName(f, Arg(f))) :
                      X_dmatrix.data[i] = 0

\* C4 amended: for such a value v of field f, the column f_v is 1 when the
\* schema has it, no column of f is 1 when the schema lacks it, and every
\* other column of f is 0.
C4_ColumnSetWhenInSchema ==
    Returned =>
        \A f \in OneHotFields :
            ValidNonBaseline(f) =>
                \A i \in FieldColumns(f) :
                    X_dmatrix.data[i] =
                        IF X_dmatrix.feature_names[i] = ColName(f, Arg(f))
                        THEN 1 ELSE 0

C4_Witness ==
    /\ Returned
    /\ ValidNonBaseline("cylinders")
    /\ \E i \in FieldColumns("cylinders") : X_dmatrix.data[i] = 1
    /\ \E i \in FieldColumns("cylinders") : X_dmatrix.data[i] = 0
    /\ ValidNonBaseline("fuel")
    /\ ColName("fuel", fuel) \notin Range(X_train_columns)
    /\ FieldColumns("fuel") # {}

\* C5: with transmission 'automatic' no transmission_* column is 1 and with
\* drive 'awd' no drive_* column is 1, also when the schema has a column
\* 'transmission_automatic' or 'drive_awd'.
C5_BaselineSetsNoColumn ==
    Returned =>
        /\ transmission = "automatic" =>
             \A i \in FieldColumns("transmission") : X_dmatrix.data[i] = 0
        /\ drive = "awd" =>
             \A i \in FieldColumns("drive") : X_dmatrix.data[i] = 0

C5_Witness ==
    /\ Returned
    /\ transmission = "automatic" /\ drive = "awd"
    /\ ColumnsNamed("transmission_automatic") # {}
    /\ ColumnsNamed("drive_awd") # {}

\* C6: the 'age' column is the reference year minus year, the reference year
\* being the stored one or 2024 when its file cannot be loaded; it is
\* negative when year is later than the reference year.
C6_AgeIsReferenceYearMinusYear ==
    Returned =>
        /\ X_dmatrix.raised = "none"
        /\ \A i \in ColumnsNamed("age") : X_dmatrix.data[i] = ReferenceYear - year

C6_Witness ==
    /\ Returned
    /\ disk[AnoFile].status # "ok"
    /\ year > ReferenceYear
    /\ \E i \in ColumnsNamed("age") : X_dmatrix.data[i] < 0

----------------------------------------------------------------------------
(* Properties of the application, checked under Spec *)

\* C7 as stated: when a required artifact is missing or corrupt, the run
\* shows an error naming that artifact and halts before the form.
C7_LoadFailureNamesTheArtifact ==
    (pc # "load" /\ FirstBad(disk) # 0) =>
        /\ pc = "stopped"
        /\ screen = << Element("error", LoadOrder[FirstBad(disk)]) >>
        /\ "X_dmatrix" \notin bound

\* C8: an exception in the try block of a submit is caught and shown, the run
\* ends awaiting the next interaction with the form rendered and the
\* artifacts as loaded, and a submit after a failed one returns what an
\* encode of its arguments computes.
C8_PredictFailureIsCaught ==
    /\ (lastexc # "none" /\ pc # "load") =>
         /\ pc = "idle"
         /\ Shows("form")
         /\ screen[Len(screen) - 1] = Element("error_predecir", lastexc)
         /\ HoldsLoaded
    /\ (failed /\ pc = "idle" /\ "X_dmatrix" \in bound) =>
         /\ HoldsLoaded
         /\ X_dmatrix = Unmemoized

C8_Witness ==
    /\ failed
    /\ pc = "idle"
    /\ lastexc = "none"
    /\ cachehit
    /\ "X_dmatrix" \in bound
    /\ Shows("success")

\* C9 as stated: in one process the artifacts are deserialized exactly once.
C9_LoadedExactlyOnce == loads <= 1

====
